---- MODULE Spec2Model ----
(***************************************************************************)
(* Model of interestmodel.py: the quarter frame builder, the rate adapter  *)
(* (fetch_rates, apply_future_rate_events), the daily path reconciler      *)
(* (build_daily_path), the asset purchases (btc_outflow_series,            *)
(* prefetch_btc_closes) and simulate_all: the quarter loop, the result     *)
(* rows and the error statistics.  Spec is a run of simulate_all,          *)
(* SpecTwice two runs that differ in the reported interest, SpecFrame,     *)
(* SpecRates and SpecPath are calls of single functions.                   *)
(*                                                                         *)
(* Dates are day numbers (integers).  Amounts and rates are exact numbers  *)
(* (type Num below): the program computes in binary floating point, the    *)
(* model in exact arithmetic, so every equality stated here is the         *)
(* equality of the real-number computation the floats approximate.         *)
(***************************************************************************)
EXTENDS Integers, Sequences, FiniteSets, TLC

(***************************************************************************)
(* Program constants                                                       *)
(***************************************************************************)
DAYCOUNT == 365

DEFAULT_OFFLINE_RATE_PCT == 5

BTC_USD_TOTAL_MM == 510

BTC_FEE_BPS == 150

QUARTER_DAYS_DEFAULT == 91

(***************************************************************************)
(* Exact numbers.  A Num is [n, d]: n is a digit sequence in radix         *)
(* RADIX = 100 * DAYCOUNT, n[1] the signed integer part and n[2..] the     *)
(* fractional digits (each in 0..RADIX-1); d >= 1 is a denominator without *)
(* a common factor with RADIX or with the numerator.  The value is         *)
(*      (n[1] + n[2]/RADIX + n[3]/RADIX^2 + ...) / d.                      *)
(* The radix makes "/ 100.0 / DAYCOUNT" a shift of one digit, so daily     *)
(* rates and compounded interest stay exact in bounded integers.           *)
(* d = 0 stands for the float NaN.                                         *)
(***************************************************************************)
RADIX == 100 * DAYCOUNT

NaN == [n |-> <<0>>, d |-> 0]

IsNaN(x) == x.d = 0

Abs(k) == IF k < 0 THEN -k ELSE k

RECURSIVE GCD(_, _)
GCD(a, b) == IF b = 0 THEN Abs(a) ELSE GCD(b, a % b)

\* carry propagation from the last digit down to the integer part: the digits
\* k+1.. are done and in acc, carry goes into digit k
RECURSIVE NormFrom(_, _, _, _)
NormFrom(s, k, carry, acc) ==
    IF k <= 1 THEN <<s[1] + carry>> \o acc
    ELSE NormFrom(s, k - 1, (s[k] + carry) \div RADIX,
                  <<(s[k] + carry) % RADIX>> \o acc)

Norm(s) == NormFrom(s, Len(s), 0, <<>>)

RECURSIVE Strip(_)
Strip(s) ==
    IF Len(s) > 1 /\ s[Len(s)] = 0 THEN Strip(SubSeq(s, 1, Len(s) - 1)) ELSE s

PadTo(s, len) == s \o [k \in 1..(len - Len(s)) |-> 0]

ScaleSeq(s, m) == Norm([k \in DOMAIN s |-> s[k] * m])

AddSeq(s, t) ==
    LET len == IF Len(s) > Len(t) THEN Len(s) ELSE Len(t)
        a == PadTo(s, len)
        b == PadTo(t, len)
    IN Norm([k \in 1..len |-> a[k] + b[k]])

\* value / RADIX
ShiftSeq(s) == <<s[1] \div RADIX, s[1] % RADIX>> \o Tail(s)

\* the numerator, read as an integer, modulo m (Horner; a digit is taken in two
\* steps, times 100 and times RADIX / 100, to keep the products small)
RECURSIVE ModFrom(_, _, _, _)
ModFrom(s, m, k, rem) ==
    IF k > Len(s) THEN rem
    ELSE ModFrom(s, m, k + 1, (((rem * 100) % m) * (RADIX \div 100) + s[k]) % m)

ModSeq(s, m) == ModFrom(s, m, 2, s[1] % m)

\* long division of the digit sequence by g (exact when the last remainder is 0)
RECURSIVE DivFrom(_, _, _, _, _)
DivFrom(s, g, k, rem, acc) ==
    IF k > Len(s) THEN acc
    ELSE LET v == ((rem * 100) % g) * (RADIX \div 100) + s[k]
         IN DivFrom(s, g, k + 1, v % g,
                    Append(acc, ((rem * 100) \div g) * (RADIX \div 100) + v \div g))

DivSeq(s, g) == DivFrom(s, g, 2, s[1] % g, <<s[1] \div g>>)

\* move the factors d shares with RADIX into the digits, cancel the rest
RECURSIVE Canon(_, _)
Canon(s, d) ==
    IF d = 1 THEN [n |-> Strip(s), d |-> 1]
    ELSE LET r == GCD(d, RADIX)
         IN IF r > 1 THEN Canon(DivSeq(Append(s, 0), r), d \div r)
            ELSE LET g == GCD(d, ModSeq(s, d))
                 IN [n |-> Strip(DivSeq(s, g)), d |-> d \div g]

Int2Num(k) == [n |-> <<k>>, d |-> 1]

Zero == Int2Num(0)

Add(x, y) ==
    IF IsNaN(x) \/ IsNaN(y) THEN NaN
    ELSE IF y = Zero THEN x
    ELSE IF x = Zero THEN y
    ELSE IF x.d = 1 /\ y.d = 1 THEN [n |-> Strip(AddSeq(x.n, y.n)), d |-> 1]
    ELSE LET l == (x.d * y.d) \div GCD(x.d, y.d)
         IN Canon(AddSeq(ScaleSeq(x.n, l \div x.d), ScaleSeq(y.n, l \div y.d)), l)

Neg(x) == IF IsNaN(x) THEN NaN ELSE [n |-> ScaleSeq(x.n, -1), d |-> x.d]

Sub(x, y) == Add(x, Neg(y))

\* x * p / q for integers p and q > 0
MulRat(x, p, q) ==
    IF IsNaN(x) THEN NaN
    ELSE LET g == GCD(p, q)
             pp == IF g = 0 THEN 0 ELSE p \div g
             qq == IF g = 0 THEN 1 ELSE q \div g
         IN Canon(ScaleSeq(x.n, pp), x.d * qq)

Rat(p, q) == MulRat(Int2Num(1), p, q)

\* digit sequence product: sum over the digits of t of the shifted multiples of s
RECURSIVE MulFrom(_, _, _, _)
MulFrom(s, t, k, acc) ==
    IF k > Len(t) THEN acc
    ELSE MulFrom(ShiftSeq(s), t, k + 1,
                 IF t[k] = 0 THEN acc ELSE AddSeq(acc, ScaleSeq(s, t[k])))

Mul(x, y) ==
    IF IsNaN(x) \/ IsNaN(y) THEN NaN
    ELSE IF x = Zero \/ y = Zero THEN Zero
    ELSE Canon(MulFrom(x.n, y.n, 1, <<0>>), x.d * y.d)

IsZero(x) == x = Zero

\* sign of a canonical number: its integer part is floored, digits are >= 0
IsNeg(x) == ~IsNaN(x) /\ x.n[1] < 0

IsPos(x) == ~IsNaN(x) /\ ~IsNeg(x) /\ ~IsZero(x)

\* x / k as the floats give it: undefined when k = 0
DivInt(x, k) == IF k = 0 THEN NaN ELSE MulRat(x, 1, k)

\* the largest integer at or below a canonical number
Floor(x) == x.n[1] \div x.d

RECURSIVE Pow10(_)
Pow10(k) == IF k <= 0 THEN 1 ELSE 10 * Pow10(k - 1)

\* q or q + 1, whichever is nearer to q + twice / 2; the even one on a tie
HalfEven(q, twice) ==
    IF Floor(twice) < 1 THEN q
    ELSE IF twice = Int2Num(1) THEN (IF q % 2 = 0 THEN q ELSE q + 1)
    ELSE q + 1

\* the nearest integer to s >= 0
RoundScaled(s, q) == HalfEven(q, MulRat(Sub(s, Int2Num(q)), 2, 1))

\* x * 10^k, one factor at a time
RECURSIVE Times10(_, _)
Times10(x, k) == IF k <= 0 THEN x ELSE Times10(MulRat(x, 10, 1), k - 1)

RoundFrac(frac, nd) == RoundScaled(Times10(frac, nd), Floor(Times10(frac, nd)))

\* round(x, nd) for nd >= 1: the nearest multiple of 10^-nd, ties to the even
\* one; NaN stays NaN
Round(x, nd) ==
    IF IsNaN(x) THEN NaN
    ELSE Add(Int2Num(Floor(x)), Rat(RoundFrac(Sub(x, Int2Num(Floor(x))), nd), Pow10(nd)))

\* |x|
AbsNum(x) == IF IsNeg(x) THEN Neg(x) ELSE x

\* x / y for a divisor that is a whole number over its denominator (the units
\* and the reported figures of the model are); undefined for y = 0
DivNum(x, y) ==
    IF IsNaN(x) \/ IsNaN(y) \/ IsZero(y) THEN NaN
    ELSE IF Len(y.n) = 1
    THEN (IF y.n[1] > 0 THEN MulRat(x, y.d, y.n[1]) ELSE MulRat(x, -y.d, -y.n[1]))
    ELSE CHOOSE q \in {} : TRUE

\* pandas Series.sum(): NaN entries are skipped.  The sum of s[a..b], split
\* in halves so that the evaluation stays shallow.
RECURSIVE SumRange(_, _, _)
SumRange(s, a, b) ==
    IF a > b THEN Zero
    ELSE IF a = b THEN (IF IsNaN(s[a]) THEN Zero ELSE s[a])
    ELSE LET m == (a + b) \div 2
         IN Add(SumRange(s, a, m), SumRange(s, m + 1, b))

SumSkipNaN(s) == SumRange(s, 1, Len(s))

Max(a, b) == IF a > b THEN a ELSE b

Min(a, b) == IF a < b THEN a ELSE b

\* pd.date_range(a, b, freq="D"): the days a..b in order, empty when a > b
date_range(a, b) == [k \in 1..(b - a + 1) |-> a + k - 1]

(***************************************************************************)
(* Quarter frame                                                           *)
(***************************************************************************)
\* sorted(...) of a set of dates
RECURSIVE SortedDates(_)
SortedDates(S) ==
    IF S = {} THEN <<>>
    ELSE LET m == CHOOSE x \in S : \A y \in S : x <= y
         IN <<m>> \o SortedDates(S \ {m})

\* a loop whose forecast quarter-ends are one day further apart
RECURSIVE AppendForecastEndsWider(_, _, _)
AppendForecastEndsWider(ends, N, L) ==
    IF N <= 0 THEN ends
    ELSE AppendForecastEndsWider(Append(ends, ends[Len(ends)] + L + 1), N - 1, L)

\* the loop appending N forecast quarter-ends, each quarter_days after the last
RECURSIVE AppendForecastEnds(_, _, _)
AppendForecastEnds(ends, N, L) ==
    IF N <= 0 THEN ends
    ELSE AppendForecastEnds(Append(ends, ends[Len(ends)] + L), N - 1, L)

\* a row whose day count leaves the end day out
FrameRowShort(ends, i, L) ==
    LET e == ends[i]
        start == IF i > 1 THEN ends[i-1] + 1 ELSE e - (L - 1)
    IN [iq |-> i, q_end |-> e, q_start |-> start, days |-> e - start]

FrameRow(ends, i, L) ==
    LET e == ends[i]
        start == IF i > 1 THEN ends[i-1] + 1 ELSE e - (L - 1)
    IN [iq |-> i, q_end |-> e, q_start |-> start, days |-> (e - start) + 1]

\* build_quarter_frame_with_forecast: an empty anchor table makes ends[-1]
\* (or the "q_end" column of an empty frame) fail
build_quarter_frame_with_forecast(anchors, N, L) ==
    IF anchors = {} THEN [err |-> TRUE, rows |-> <<>>]
    ELSE LET ends == AppendForecastEnds(SortedDates(anchors), Max(N, 0), L)
         IN [err |-> FALSE, rows |-> [i \in 1..Len(ends) |-> FrameRow(ends, i, L)]]

(***************************************************************************)
(* Rate adapter.  The external source answers with src = [ok, obs]: ok is  *)
(* FALSE when the request raises, obs maps the days it has a row for to    *)
(* the observed rate in percent (NaN for a row without a value).           *)
(***************************************************************************)
\* Series.ffill(): every entry takes the last defined entry at or before it
\* (the scan of s[a..b] entered with the value `last`, split in halves)
RECURSIVE FfillFrom(_, _, _, _)
FfillFrom(s, a, b, last) ==
    IF a > b THEN <<>>
    ELSE IF a = b THEN <<IF IsNaN(s[a]) THEN last ELSE s[a]>>
    ELSE LET m == (a + b) \div 2
             left == FfillFrom(s, a, m, last)
         IN IF Len(left) > 0 THEN left \o FfillFrom(s, m + 1, b, left[Len(left)])
            ELSE left

ffill(s) == FfillFrom(s, 1, Len(s), NaN)

\* Series.bfill(): every undefined entry takes the next defined entry after it
RECURSIVE BfillFrom(_, _, _, _)
BfillFrom(s, a, b, next) ==
    IF a > b THEN <<>>
    ELSE IF a = b THEN <<IF IsNaN(s[a]) THEN next ELSE s[a]>>
    ELSE LET m == (a + b) \div 2
             right == BfillFrom(s, m + 1, b, next)
         IN IF Len(right) > 0 THEN BfillFrom(s, a, m, right[1]) \o right ELSE right

\* a backward fill that fills nothing
bfillNothing(s) == s

bfill(s) == BfillFrom(s, 1, Len(s), NaN)

\* a fill that leaves the undefined entries undefined
fillnaNothing(s, v) == s

fillna(s, v) == [k \in DOMAIN s |-> IF IsNaN(s[k]) THEN v ELSE s[k]]

\* (rate_pct / 100.0) / DAYCOUNT
DailyRate(rate_pct) == MulRat(rate_pct, 1, 100 * DAYCOUNT)

RateRow(rate_pct) == [rate_pct |-> rate_pct, daily_rate |-> DailyRate(rate_pct)]

\* fetch_rates: reindex to every day of start..end, fill forward, backward, default
fetch_rates(start, end, src) ==
    LET all_days == date_range(start, end)
        r == [k \in DOMAIN all_days |->
                IF src.ok /\ all_days[k] \in DOMAIN src.obs
                THEN src.obs[all_days[k]] ELSE NaN]
        filled == fillna(bfill(ffill(r)), Int2Num(DEFAULT_OFFLINE_RATE_PCT))
    IN [d \in start..end |-> RateRow(filled[d - start + 1])]

\* sorted(events, key=date): stable, equal dates keep their listed order
RECURSIVE InsertByDate(_, _)
InsertByDate(sorted, ev) ==
    IF sorted = <<>> THEN <<ev>>
    ELSE IF sorted[Len(sorted)].date <= ev.date THEN Append(sorted, ev)
    ELSE Append(InsertByDate(SubSeq(sorted, 1, Len(sorted) - 1), ev), sorted[Len(sorted)])

\* the events in listed order
SortedByDateListed(evs) == evs

RECURSIVE SortedByDate(_)
SortedByDate(evs) ==
    IF evs = <<>> THEN <<>>
    ELSE InsertByDate(SortedByDate(SubSeq(evs, 1, Len(evs) - 1)), evs[Len(evs)])

\* one iteration of the loop over the sorted events on the rate_pct column
ApplyRateEvent(st, ev) ==
    IF st.err THEN st
    ELSE IF ~(\E d \in DOMAIN st.pct : d >= ev.date) THEN st
    ELSE IF ev.has_delta /\ ev.has_abs THEN [st EXCEPT !.err = TRUE]
    ELSE IF ev.has_abs
         THEN [st EXCEPT !.pct = [d \in DOMAIN st.pct |->
                                    IF d >= ev.date THEN ev.to_pct ELSE st.pct[d]]]
    ELSE IF ev.has_delta
         THEN [st EXCEPT !.pct = [d \in DOMAIN st.pct |->
                                    IF d >= ev.date
                                    THEN Add(st.pct[d], Rat(ev.delta_bps, 100))
                                    ELSE st.pct[d]]]
    ELSE st

RECURSIVE ApplyRateEvents(_, _)
ApplyRateEvents(st, evs) ==
    IF evs = <<>> THEN st ELSE ApplyRateEvents(ApplyRateEvent(st, evs[1]), Tail(evs))

\* apply_future_rate_events: [err, rates]; err is the ValueError
apply_future_rate_events(rts, evs) ==
    IF evs = <<>> THEN [err |-> FALSE, rates |-> rts]
    ELSE LET base == [d \in DOMAIN rts |->
                        IF IsNaN(rts[d].rate_pct) THEN Int2Num(DEFAULT_OFFLINE_RATE_PCT)
                        ELSE rts[d].rate_pct]
             st == ApplyRateEvents([err |-> FALSE, pct |-> base], SortedByDate(evs))
         IN [err |-> st.err,
             rates |-> IF st.err THEN rts ELSE [d \in DOMAIN rts |-> RateRow(st.pct[d])]]

(***************************************************************************)
(* Daily path reconciler                                                   *)
(***************************************************************************)
HasDuplicateDates(evs) ==
    \E i, j \in DOMAIN evs : i # j /\ evs[i].date = evs[j].date

\* e.reindex(df.index, fill_value=0.0) on the events of the quarter
EventFlow(evs, day) ==
    IF \E i \in DOMAIN evs : evs[i].date = day
    THEN evs[CHOOSE i \in DOMAIN evs : evs[i].date = day].amount
    ELSE Zero

\* btc_out.reindex(df.index)["cash_flow"].fillna(0.0), or 0.0 for an empty frame
BtcFlow(btc_out, day) ==
    IF \E i \in DOMAIN btc_out : btc_out[i].date = day
    THEN LET v == btc_out[CHOOSE i \in DOMAIN btc_out : btc_out[i].date = day].cash_flow
         IN IF IsNaN(v) THEN Zero ELSE v
    ELSE Zero

\* a walk that leaves the drift out of the day's balance
WalkStepNoDrift(bal, col, drift) == Add(Add(bal, col.events), col.btc)

\* one day of the walk: bal += d.events + d.btc + d.drift
WalkStep(bal, col, drift) == Add(Add(Add(bal, col.events), col.btc), drift)

\* a walk that enters every day with the balance the walk was entered with
WalkFromStart(cols, drift, a, b, bal) ==
    [k \in 1..(b - a + 1) |-> WalkStep(bal, cols[a + k - 1], drift)]

\* the walk over the days a..b in index order, entered with balance bal: the
\* ending balances of those days (split in halves: the second half is entered
\* with the last balance of the first)
RECURSIVE Walk(_, _, _, _, _)
Walk(cols, drift, a, b, bal) ==
    IF a > b THEN <<>>
    ELSE IF a = b THEN <<WalkStep(bal, cols[a], drift)>>
    ELSE LET m == (a + b) \div 2
             left == Walk(cols, drift, a, m, bal)
         IN IF Len(left) > 0 THEN left \o Walk(cols, drift, m + 1, b, left[Len(left)])
            ELSE left

DailyRow(day, col, drift, bal, rts) ==
    LET dr == IF day \in DOMAIN rts THEN rts[day].daily_rate ELSE NaN
    IN [date |-> day, events |-> col.events, btc |-> col.btc, drift |-> drift,
        ending_balance_mm |-> bal, daily_rate |-> dr, interest_mm |-> Mul(bal, dr)]

\* build_daily_path: [err, daily, interest]; err is the ValueError pandas
\* raises when reindexing a series whose index has duplicate dates
build_daily_path(inputs, rts) ==
    IF inputs.events # <<>> /\ HasDuplicateDates(inputs.events)
    THEN [err |-> TRUE, daily |-> <<>>, interest |-> NaN]
    ELSE LET days == date_range(inputs.q_start, inputs.q_end)
             cols == [k \in DOMAIN days |->
                        [events |-> EventFlow(inputs.events, days[k]),
                         btc |-> BtcFlow(inputs.btc_out, days[k])]]
             mech_flows_total ==
                 SumSkipNaN([k \in DOMAIN cols |-> Add(cols[k].events, cols[k].btc)])
             n_days == Len(days)
             drift_per_day == DivInt(Sub(Sub(inputs.end_liq, inputs.start_liq),
                                         mech_flows_total), n_days)
             balance == Walk(cols, drift_per_day, 1, n_days, inputs.start_liq)
             df == [k \in DOMAIN days |->
                      DailyRow(days[k], cols[k], drift_per_day, balance[k], rts)]
         IN [err |-> FALSE, daily |-> df,
             interest |-> SumSkipNaN([k \in DOMAIN df |-> df[k].interest_mm])]

(***************************************************************************)
(* Asset purchases.  The price source answers a download with              *)
(* ans = [ok, px]: ok is FALSE when the download raises or comes back      *)
(* empty, px maps the days it has a row for to the close in USD.           *)
(***************************************************************************)
BTC_UNITS_DEFAULT == 4710

NoneNum == [n |-> <<0>>, d |-> -1]

IsNone(x) == x.d = -1

\* 1.0 + fee_bps / 10_000.0
FeeMult(fee_bps) == Add(Int2Num(1), Rat(fee_bps, 10000))

\* btc_outflow_series(start, end, total_btc, units_per_day_override,
\* fallback_per_day_mm_override, fee_bps): one row per day of start..end
btc_outflow_series(start, end, total_btc, units_per_day_override, fallback_per_day_mm_override, fee_bps, ans) ==
    LET dates == date_range(start, end)
        fee_mult == FeeMult(fee_bps)
    IN IF Len(dates) = 0 THEN <<>>
       ELSE IF ans.ok
       THEN LET px == ffill([k \in DOMAIN dates |->
                               IF dates[k] \in DOMAIN ans.px
                               THEN ans.px[dates[k]] ELSE NaN])
                units_per_day == IF ~IsNone(units_per_day_override)
                                 THEN units_per_day_override
                                 ELSE DivInt(total_btc, Len(dates))
            IN [k \in DOMAIN dates |->
                  [date |-> dates[k],
                   cash_flow |-> Neg(MulRat(Mul(Mul(px[k], units_per_day), fee_mult),
                                            1, 1000000)),
                   btc_units |-> units_per_day,
                   btc_price_usd |-> px[k]]]
       ELSE LET per_day_mm ==
                    Neg(Mul(IF ~IsNone(fallback_per_day_mm_override)
                            THEN fallback_per_day_mm_override
                            ELSE DivInt(Int2Num(BTC_USD_TOTAL_MM), Len(dates)),
                            fee_mult))
            IN [k \in DOMAIN dates |->
                  [date |-> dates[k], cash_flow |-> per_day_mm,
                   btc_units |-> NaN, btc_price_usd |-> NaN]]

\* a prefetch that answers a failed download with closes of 0.0
prefetch_btc_closesZero(q_end_dates, ans) ==
    [e \in q_end_dates |->
        IF ans.ok /\ (\E d \in DOMAIN ans.px : d <= e /\ ~IsNaN(ans.px[d]))
        THEN ans.px[CHOOSE d \in DOMAIN ans.px :
                      /\ d <= e /\ ~IsNaN(ans.px[d])
                      /\ \A c \in DOMAIN ans.px : (c <= e /\ ~IsNaN(ans.px[c])) => c <= d]
        ELSE Zero]

\* prefetch_btc_closes: each quarter end takes the last close at or before it
\* (the series is filled forward); every close is NaN when the download fails
prefetch_btc_closes(q_end_dates, ans) ==
    [e \in q_end_dates |->
        IF ans.ok /\ (\E d \in DOMAIN ans.px : d <= e /\ ~IsNaN(ans.px[d]))
        THEN ans.px[CHOOSE d \in DOMAIN ans.px :
                      /\ d <= e /\ ~IsNaN(ans.px[d])
                      /\ \A c \in DOMAIN ans.px : (c <= e /\ ~IsNaN(ans.px[c])) => c <= d]
        ELSE NaN]

(***************************************************************************)
(* State                                                                   *)
(***************************************************************************)
VARIABLES
    pc,                \* position of the run
    forecast_quarters, \* argument: number of forecast quarters
    quarter_days,      \* argument of the frame builder: assumed quarter length
    q_liq,             \* quarter_end_liquidity(): quarter-end date -> anchor
    q_rep,             \* reported_interest_income(): quarter-end date -> [p, q]
    events,            \* dated_events(): rows [date, amount], sorted by date
    rate_events,       \* FUTURE_RATE_EVENTS, in listed order
    btc_window,        \* argument: <<first day, last day>> of the purchases
    rate_range,        \* <<start, end>> asked of fetch_rates
    fred,              \* what the rate source answered
    qdf,               \* the quarter frame
    rates,             \* the rate table: day -> [rate_pct, daily_rate]
    btc_closes_by_qend,\* quarter end -> close, from prefetch_btc_closes
    qi,                \* quarters processed by the loop
    prev_end_liq,      \* carry into the next quarter (NoneNum before the first)
    prev_q_end,        \* previous quarter end (0 with qi = 0: None)
    cum_btc_units,     \* units held at the end of the prior quarter
    cum_btc_cost_mm,   \* cumulative cost of the purchases
    cur,               \* the locals of the last loop iteration
    daily,             \* the daily path of the last loop iteration
    results,           \* the result rows
    yahoo,             \* what the price source answered, one entry per download
    calls,             \* requests made to the rate source and to the price source
    stats,             \* the error statistics printed after the loop
    fwd,               \* per quarter of this run: liquidity, path, interest, carry
    run,               \* 1 in a run, 2 in its repetition with other reported figures
    first              \* what the first of two runs left: [pc, fwd, results, yahoo]

vars == <<pc, forecast_quarters, quarter_days, q_liq, q_rep, events, rate_events,
          btc_window, rate_range, fred, qdf, rates, btc_closes_by_qend, qi,
          prev_end_liq, prev_q_end, cum_btc_units, cum_btc_cost_mm, cur, daily,
          results, yahoo, calls, stats, fwd, run, first>>

\* the state of the quarter loop
loop_state == <<qi, prev_end_liq, prev_q_end, cum_btc_units, cum_btc_cost_mm, cur,
                daily, results, fwd>>

inputs == <<forecast_quarters, quarter_days, q_liq, q_rep, events, rate_events,
            btc_window>>

NoAnswer == [ok |-> FALSE, obs |-> <<>>]

NoPrices == [ok |-> FALSE, px |-> <<>>]

NoCur == [iq |-> 0]

NoCalls == [fred |-> 0, yahoo |-> 0]

NoFirst == [pc |-> "none", fwd |-> <<>>, results |-> <<>>, yahoo |-> <<>>]

NoStats == [mape_clean |-> NaN, smape_all |-> NaN]

(***************************************************************************)
(* simulate_all: one iteration of the quarter loop                         *)
(***************************************************************************)
\* events[(events["date"] >= q_start) & (events["date"] <= q_end)]
RECURSIVE EventsWithin(_, _, _)
EventsWithin(evs, a, b) ==
    IF evs = <<>> THEN <<>>
    ELSE IF evs[1].date >= a /\ evs[1].date <= b
         THEN <<evs[1]>> \o EventsWithin(Tail(evs), a, b)
         ELSE EventsWithin(Tail(evs), a, b)

WindowLen(w) == Len(date_range(w[1], w[2]))

\* btc_units / len(btc_global_days), 0.0 for an empty window
units_per_day_global(w) ==
    IF WindowLen(w) > 0 THEN DivInt(Int2Num(BTC_UNITS_DEFAULT), WindowLen(w)) ELSE Zero

\* BTC_USD_TOTAL_MM / len(btc_global_days), 0.0 for an empty window
fallback_per_day_mm_global(w) ==
    IF WindowLen(w) > 0 THEN DivInt(Int2Num(BTC_USD_TOTAL_MM), WindowLen(w)) ELSE Zero

\* a carry that takes the modeled interest in every quarter
EndLiqCarryAlways(end_liq, modeled_interest_mm, is_forecast) ==
    Add(end_liq, modeled_interest_mm)

\* a carry that takes the reported interest in a quarter that has a figure
EndLiqCarryReported(end_liq, modeled_interest_mm, is_forecast) ==
    Add(end_liq,
        IF is_forecast THEN modeled_interest_mm
        ELSE IF qdf[qi + 1].q_end \in DOMAIN q_rep
        THEN Rat(q_rep[qdf[qi + 1].q_end].p, q_rep[qdf[qi + 1].q_end].q)
        ELSE Zero)

\* carry = end_liq, plus the modeled interest in a forecast quarter
EndLiqCarry(end_liq, modeled_interest_mm, is_forecast) ==
    Add(end_liq, IF is_forecast THEN modeled_interest_mm ELSE Zero)

\* a start liquidity that prefers the quarter's own anchor to the carry
StartLiqFromAnchor(prev, liq, q_end) ==
    IF q_end \in DOMAIN liq /\ ~IsNaN(liq[q_end]) THEN liq[q_end]
    ELSE IF IsNone(prev) THEN Zero ELSE prev

\* start liquidity: the carry, or for the first quarter its own anchor, else 0.0
StartLiq(prev, liq, q_end) ==
    IF IsNone(prev)
    THEN (IF q_end \in DOMAIN liq /\ ~IsNaN(liq[q_end]) THEN liq[q_end] ELSE Zero)
    ELSE prev

\* an end liquidity that leaves the purchases out in a forecast quarter
EndLiqNoBtc(start_liq, ev_sum, btc_sum, liq, q_end) ==
    IF q_end \in DOMAIN liq /\ ~IsNaN(liq[q_end]) THEN liq[q_end]
    ELSE Add(start_liq, ev_sum)

\* end liquidity: the anchor, or in a forecast quarter start + events + purchases
EndLiq(start_liq, ev_sum, btc_sum, liq, q_end) ==
    IF q_end \in DOMAIN liq /\ ~IsNaN(liq[q_end]) THEN liq[q_end]
    ELSE Add(Add(start_liq, ev_sum), btc_sum)

\* is_forecast = pd.isna(q_liq.get(q_end, np.nan))
IsForecast(liq, q_end) == ~(q_end \in DOMAIN liq /\ ~IsNaN(liq[q_end]))

\* the purchases of the quarter: the overlap of the quarter with the window
BtcDf(row, w, ans) ==
    LET overlap_start == Max(row.q_start, w[1])
        overlap_end == Min(row.q_end, w[2])
    IN IF overlap_start <= overlap_end
       THEN btc_outflow_series(overlap_start, overlap_end,
                Int2Num(BTC_UNITS_DEFAULT), units_per_day_global(w),
                fallback_per_day_mm_global(w), BTC_FEE_BPS, ans)
       ELSE <<>>

\* q_rep.get(q_end, None)
Reported(rep, q_end) ==
    IF q_end \in DOMAIN rep THEN Rat(rep[q_end].p, rep[q_end].q) ELSE NoneNum

\* an error that is 0.0 without a reported figure
AbsErrZero(modeled_interest_mm, rep, q_end) ==
    IF q_end \in DOMAIN rep
    THEN Sub(modeled_interest_mm, Rat(rep[q_end].p, rep[q_end].q))
    ELSE Zero

\* modeled - reported, NaN without a reported figure
AbsErr(modeled_interest_mm, rep, q_end) ==
    IF q_end \in DOMAIN rep
    THEN Sub(modeled_interest_mm, Rat(rep[q_end].p, rep[q_end].q))
    ELSE NaN

\* abs_err / reported, NaN without a reported figure or with a reported 0
PctErr(modeled_interest_mm, rep, q_end) ==
    IF q_end \in DOMAIN rep /\ rep[q_end].p # 0
    THEN MulRat(AbsErr(modeled_interest_mm, rep, q_end), rep[q_end].q, rep[q_end].p)
    ELSE NaN

\* the close recorded for a quarter end, NaN when there is none
CloseAt(closes, known, q_end) ==
    IF known /\ q_end \in DOMAIN closes THEN closes[q_end] ELSE NaN

\* units * px / 1e6 when units > 0 and the price is known, else 0.0
FairValue(units, px) ==
    IF IsPos(units) /\ ~IsNaN(px) THEN MulRat(Mul(units, px), 1, 1000000) ELSE Zero

\* spent * 1e6 / units when units were executed, else NaN
AvgPrice(btc_spent_mm, btc_units_executed) ==
    IF IsPos(btc_units_executed)
    THEN DivNum(MulRat(MulRat(btc_spent_mm, 1000, 1), 1000, 1), btc_units_executed)
    ELSE NaN

\* an ending position that forgets the units held before the quarter
BtcUnitsEndReset(btc_units_beg, btc_units_executed) == btc_units_executed

\* btc_units_end = btc_units_beg + btc_units_executed
BtcUnitsEnd(btc_units_beg, btc_units_executed) == Add(btc_units_beg, btc_units_executed)

\* the locals of the loop body once the quarter's path is built
QuarterLocals(row, start_liq, ev_q, btc_df, ev_sum, btc_sum, end_liq, modeled_interest_mm, btc_units_executed) ==
    [iq |-> row.iq, q_start |-> row.q_start, q_end |-> row.q_end,
     start_liq |-> start_liq, end_liq |-> end_liq,
     is_forecast |-> IsForecast(q_liq, row.q_end), ev_q |-> ev_q, btc_df |-> btc_df,
     ev_sum |-> ev_sum, btc_sum |-> btc_sum,
     modeled_interest_mm |-> modeled_interest_mm,
     reported |-> Reported(q_rep, row.q_end),
     abs_err |-> AbsErr(modeled_interest_mm, q_rep, row.q_end),
     pct_err |-> PctErr(modeled_interest_mm, q_rep, row.q_end),
     btc_spent_mm |-> Neg(btc_sum),
     btc_units_executed |-> btc_units_executed,
     btc_avg_price_usd |-> AvgPrice(Neg(btc_sum), btc_units_executed),
     btc_px_qbeg_usd |-> CloseAt(btc_closes_by_qend, qi > 0, prev_q_end),
     btc_px_qend_usd |-> CloseAt(btc_closes_by_qend, TRUE, row.q_end),
     btc_units_beg |-> cum_btc_units,
     btc_units_end |-> BtcUnitsEnd(cum_btc_units, btc_units_executed),
     fv_beg_mm |-> FairValue(cum_btc_units,
                             CloseAt(btc_closes_by_qend, qi > 0, prev_q_end)),
     fv_end_mm |-> FairValue(BtcUnitsEnd(cum_btc_units, btc_units_executed),
                             CloseAt(btc_closes_by_qend, TRUE, row.q_end)),
     end_liq_carry_mm |-> EndLiqCarry(end_liq, modeled_interest_mm,
                                      IsForecast(q_liq, row.q_end))]

\* btc_earnings_mm and total_end_liq_mm, from the locals above
WithBtcEarnings(l) ==
    [iq |-> l.iq, q_start |-> l.q_start, q_end |-> l.q_end,
     start_liq |-> l.start_liq, end_liq |-> l.end_liq,
     is_forecast |-> l.is_forecast, ev_q |-> l.ev_q, btc_df |-> l.btc_df,
     ev_sum |-> l.ev_sum, btc_sum |-> l.btc_sum,
     modeled_interest_mm |-> l.modeled_interest_mm,
     reported |-> l.reported, abs_err |-> l.abs_err, pct_err |-> l.pct_err,
     btc_spent_mm |-> l.btc_spent_mm, btc_units_executed |-> l.btc_units_executed,
     btc_avg_price_usd |-> l.btc_avg_price_usd,
     btc_px_qbeg_usd |-> l.btc_px_qbeg_usd, btc_px_qend_usd |-> l.btc_px_qend_usd,
     btc_units_beg |-> l.btc_units_beg, btc_units_end |-> l.btc_units_end,
     fv_beg_mm |-> l.fv_beg_mm, fv_end_mm |-> l.fv_end_mm,
     btc_earnings_mm |-> Sub(l.fv_end_mm, Add(l.fv_beg_mm, l.btc_spent_mm)),
     end_liq_carry_mm |-> l.end_liq_carry_mm,
     total_end_liq_mm |-> Add(l.end_liq_carry_mm, l.fv_end_mm)]

\* the row appended to results: the figures are rounded here, a NaN stays NaN.
\* (The yield diagnostics of the row, avg_balance_mm to reported_minus_3m_bps,
\* are left out: nothing reads them back.)
ResultRow(l, path_daily) ==
    [q_end |-> l.q_end,
     is_forecast |-> l.is_forecast,
     days |-> Len(path_daily),
     modeled_interest_mm |-> Round(l.modeled_interest_mm, 2),
     reported_interest_mm |-> l.reported,
     abs_error_mm |-> Round(l.abs_err, 2),
     pct_error |-> Round(l.pct_err, 4),
     start_liq_mm |-> Round(l.start_liq, 2),
     end_liq_mm |-> Round(l.end_liq, 2),
     events_mm |-> Round(l.ev_sum, 2),
     btc_spent_mm |-> Round(l.btc_spent_mm, 2),
     btc_units_executed |-> Round(l.btc_units_executed, 6),
     btc_avg_price_usd |-> Round(l.btc_avg_price_usd, 2),
     btc_px_qbeg_usd |-> Round(l.btc_px_qbeg_usd, 2),
     btc_px_qend_usd |-> Round(l.btc_px_qend_usd, 2),
     btc_units_holdings |-> Round(l.btc_units_end, 6),
     btc_fair_value_mm |-> Round(l.fv_end_mm, 2),
     btc_earnings_mm |-> Round(l.btc_earnings_mm, 2),
     end_liq_carry_mm |-> Round(l.end_liq_carry_mm, 2),
     total_end_liq_mm |-> Round(l.total_end_liq_mm, 2),
     drift_per_day_mm |-> IF path_daily = <<>> THEN NaN
                          ELSE Round(path_daily[1].drift, 6),
     total_drift_mm |-> IF path_daily = <<>> THEN NaN
                        ELSE Round(SumSkipNaN([k \in DOMAIN path_daily |->
                                                  path_daily[k].drift]), 2)]

\* what a quarter hands on: its liquidity, its path, its interest and its carry
ForwardRow(l, path_daily) ==
    [q_end |-> l.q_end, start_liq |-> l.start_liq, end_liq |-> l.end_liq,
     daily |-> path_daily, modeled_interest_mm |-> l.modeled_interest_mm,
     end_liq_carry_mm |-> l.end_liq_carry_mm]

\* pd.to_numeric(res["reported_interest_mm"], errors="coerce"): None becomes NaN
ToNumeric(x) == IF IsNone(x) THEN NaN ELSE x

\* |modeled - reported| / |reported| of a result row with the reported figure
\* p / q (a reported figure of 0 makes it infinite or undefined: no table of
\* the model holds one)
Ape(modeled, has_figure, p, q) ==
    IF ~has_figure \/ IsNaN(modeled) THEN NaN
    ELSE IF p = 0 THEN CHOOSE v \in {} : TRUE
    ELSE MulRat(AbsNum(Sub(modeled, Rat(p, q))), q, Abs(p))

\* |modeled - reported| / ((|modeled| + |reported|) / 2); modeled is a whole
\* number of hundredths, so the divisor is (|M| q + 100 |p|) / (200 q)
Smape(modeled, has_figure, p, q) ==
    IF ~has_figure \/ IsNaN(modeled) THEN NaN
    ELSE IF Floor(Times10(AbsNum(modeled), 2)) * q + 100 * Abs(p) = 0 THEN NaN
    ELSE MulRat(AbsNum(Sub(modeled, Rat(p, q))), 200 * q,
                Floor(Times10(AbsNum(modeled), 2)) * q + 100 * Abs(p))

\* a row of the results frame: the reported figure made numeric, the
\* operating drift (NaN in a forecast row), ape and smape
WithErrorColumns(r, rep) ==
    [f \in DOMAIN r \cup {"operating_drift_mm", "ape", "smape"} |->
        CASE f = "reported_interest_mm" -> ToNumeric(r.reported_interest_mm)
          [] f = "operating_drift_mm" ->
                 IF r.is_forecast THEN NaN
                 ELSE Round(Sub(r.total_drift_mm, r.modeled_interest_mm), 2)
          [] f = "ape" ->
                 IF r.q_end \in DOMAIN rep
                 THEN Ape(r.modeled_interest_mm, TRUE, rep[r.q_end].p, rep[r.q_end].q)
                 ELSE Ape(r.modeled_interest_mm, FALSE, 0, 1)
          [] f = "smape" ->
                 IF r.q_end \in DOMAIN rep
                 THEN Smape(r.modeled_interest_mm, TRUE, rep[r.q_end].p, rep[r.q_end].q)
                 ELSE Smape(r.modeled_interest_mm, FALSE, 0, 1)
          [] OTHER -> r[f]]

\* np.nanmean: the mean of the defined entries, NaN when there is none
NanMean(s) ==
    IF \A k \in DOMAIN s : IsNaN(s[k]) THEN NaN
    ELSE DivInt(SumSkipNaN(s), Cardinality({k \in DOMAIN s : ~IsNaN(s[k])}))

\* the entries of s whose row has |reported| >= 5.0, in order
RECURSIVE MaskMaterial(_, _)
MaskMaterial(res, k) ==
    IF k > Len(res) THEN <<>>
    ELSE IF /\ ~IsNaN(res[k].reported_interest_mm)
            /\ ~IsNeg(Sub(AbsNum(res[k].reported_interest_mm), Int2Num(5)))
         THEN <<res[k].ape>> \o MaskMaterial(res, k + 1)
         ELSE MaskMaterial(res, k + 1)

\* mape_clean and smape_all
ErrorStats(res) ==
    [mape_clean |-> NanMean(MaskMaterial(res, 1)),
     smape_all |-> NanMean([k \in DOMAIN res |-> res[k].smape])]

(***************************************************************************)
(* Bounds and input domains                                                *)
(***************************************************************************)
MaxAnchors == 2

MaxForecast == 2

MaxQuarterDays == 3

MaxAnchorDay == 4

MaxRateDay == 3

MaxRateEvents == 2

\* the anchor tables of the simulate_all runs: 1..MaxAnchors anchors, the first
\* on day 0, ten days apart, of 1000, 1100, 1200, ...
AnchorTables ==
    {[d \in {k * 10 : k \in 0..(n - 1)} |-> Int2Num(1000 + 10 * d)] : n \in 1..MaxAnchors}

\* the anchor tables handed to the frame builder alone: any set of days
FrameAnchorTables ==
    {[d \in S |-> Int2Num(1000)] : S \in SUBSET (0..MaxAnchorDay)}

\* reported interest: 0.7 for the first anchor, no figure for the others
ReportedTables == {[d \in {0} |-> [p |-> 7, q |-> 10]]}

\* the reported interest of the repetition of a run: no figure at all, or
\* 12.9 for the first two anchors
OtherReportedTables ==
    {<<>>, [d \in {0, 10} |-> [p |-> 129, q |-> 10]]}

\* dated events, sorted by date: any sub-list of the pool
EventPool ==
    <<[date |-> -3, amount |-> Int2Num(50)],
      [date |-> 5, amount |-> Int2Num(50)],
      [date |-> 5, amount |-> Int2Num(-30)]>>

RECURSIVE SubLists(_)
SubLists(pool) ==
    IF pool = <<>> THEN {<<>>}
    ELSE LET rest == SubLists(Tail(pool))
         IN rest \cup {<<pool[1]>> \o r : r \in rest}

MaxEvents == 2

EventLists == {l \in SubLists(EventPool) : Len(l) <= MaxEvents}

RateEvent(date, kind) ==
    [date |-> date,
     has_delta |-> kind \in {"delta", "both"}, delta_bps |-> -25,
     has_abs |-> kind \in {"abs", "both"}, to_pct |-> Rat(350, 100)]

RateEventKinds == {"delta", "abs", "both", "neither"}

\* scheduled rate events of the runs of apply_future_rate_events alone: any
\* list, in any order, dated before, inside or after the rate range
RateEventChoices ==
    {RateEvent(d, k) : d \in {-1, 1, MaxRateDay + 1}, k \in RateEventKinds}

RECURSIVE ListsUpTo(_, _)
ListsUpTo(S, n) ==
    IF n = 0 THEN {<<>>}
    ELSE LET shorter == ListsUpTo(S, n - 1)
         IN shorter \cup {Append(l, x) : l \in {m \in shorter : Len(m) = n - 1}, x \in S}

RateEventLists == ListsUpTo(RateEventChoices, MaxRateEvents)

\* FUTURE_RATE_EVENTS of the simulate_all runs
SimRateEventLists ==
    {<<>>, <<RateEvent(30, "delta")>>, <<RateEvent(30, "both")>>}

\* the purchase window: inside the first forecast quarter with one anchor,
\* across the end of the second reported quarter with more
Windows == {<<9, 11>>}

\* answers of the rate source to a request for a..b: a failure, or rows for any
\* subset of the days, the rate of day d being d - a + 1 percent
FredAnswers(a, b) ==
    {NoAnswer} \cup {[ok |-> TRUE, obs |-> [d \in S |-> Int2Num(d - a + 1)]] :
                        S \in SUBSET (a..b)}

\* in the simulate_all runs: a failure, or rows for two days of the range
SimFredAnswers(a, b) ==
    {NoAnswer, [ok |-> TRUE, obs |-> [d \in {a + 7, b - 7} |->
                                         IF d = a + 7 THEN Int2Num(4) ELSE Int2Num(3)]]}

\* answers of the price source for a..b: a failure, or one close on every day
YahooAnswers(a, b) ==
    {NoPrices, [ok |-> TRUE, px |-> [d \in a..b |-> Int2Num(100000)]]}

\* the number of requests an adapter makes to its source for one answer: the
\* download is attempted once, and a failure goes to the fallback
Requests(ans) == 1

\* what the rate source may answer to this run's request: in the repetition of
\* a run, what it answered the first time
RateAnswers(a, b) == IF run = 2 THEN {fred} ELSE SimFredAnswers(a, b)

\* what the price source may answer to this run's next download: in the
\* repetition of a run, what it answered to the same download the first time
PriceAnswers(a, b) ==
    IF run = 2 /\ Len(yahoo) < Len(first.yahoo)
    THEN {first.yahoo[Len(yahoo) + 1].ans}
    ELSE YahooAnswers(a, b)

(***************************************************************************)
(* Runs of simulate_all                                                    *)
(***************************************************************************)
Init ==
    /\ pc = "start"
    /\ forecast_quarters \in 0..MaxForecast
    /\ quarter_days = QUARTER_DAYS_DEFAULT
    /\ q_liq \in AnchorTables
    /\ q_rep \in ReportedTables
    /\ events \in EventLists
    /\ rate_events \in SimRateEventLists
    /\ btc_window \in Windows
    /\ rate_range = <<0, -1>>
    /\ fred = NoAnswer
    /\ qdf = <<>>
    /\ rates = <<>>
    /\ btc_closes_by_qend = <<>>
    /\ qi = 0
    /\ prev_end_liq = NoneNum
    /\ prev_q_end = 0
    /\ cum_btc_units = Zero
    /\ cum_btc_cost_mm = Zero
    /\ cur = NoCur
    /\ daily = <<>>
    /\ results = <<>>
    /\ yahoo = <<>>
    /\ calls = NoCalls
    /\ stats = NoStats
    /\ fwd = <<>>
    /\ run = 1
    /\ first = NoFirst

\* simulate_all up to the quarter loop: the frame, the rates with the scheduled
\* events applied, the quarter-end closes, the loop state
Setup ==
    /\ pc = "start"
    /\ \E frame \in {build_quarter_frame_with_forecast(DOMAIN q_liq, forecast_quarters,
                                                        QUARTER_DAYS_DEFAULT)} :
          IF frame.err
          THEN /\ pc' = "aborted"
               /\ UNCHANGED <<rate_range, fred, qdf, rates, btc_closes_by_qend, yahoo,
                              calls>>
          ELSE \E start_all \in {frame.rows[1].q_start - 5},
                  end_all \in {frame.rows[Len(frame.rows)].q_end + 5} :
               \E src \in RateAnswers(start_all, end_all),
                  ans \in PriceAnswers(frame.rows[1].q_end - 5, end_all - 4) :
               \E adj \in {apply_future_rate_events(
                               fetch_rates(start_all, end_all, src), rate_events)} :
                  /\ qdf' = frame.rows
                  /\ rate_range' = <<start_all, end_all>>
                  /\ fred' = src
                  /\ rates' = adj.rates
                  /\ btc_closes_by_qend' =
                         IF adj.err THEN <<>>
                         ELSE prefetch_btc_closes(
                                  {frame.rows[i].q_end : i \in DOMAIN frame.rows}, ans)
                  /\ yahoo' = IF adj.err THEN yahoo
                              ELSE Append(yahoo, [iq |-> 0, ans |-> ans])
                  /\ calls' = [fred |-> calls.fred + Requests(src),
                               yahoo |-> IF adj.err THEN calls.yahoo
                                         ELSE calls.yahoo + Requests(ans)]
                  /\ pc' = IF adj.err THEN "aborted" ELSE "loop"
    /\ UNCHANGED <<inputs, loop_state, stats, run, first>>

\* one iteration of "for _, row in qdf.iterrows()"; ans is what the price
\* source answers to this quarter's download (when the quarter overlaps the
\* window)
QuarterStep ==
    /\ pc = "loop"
    /\ qi < Len(qdf)
    /\ \E row \in {qdf[qi + 1]} :
       \E overlaps \in {Max(row.q_start, btc_window[1]) <= Min(row.q_end, btc_window[2])} :
       \E ans \in (IF overlaps
                   THEN PriceAnswers(Max(row.q_start, btc_window[1]) - 3,
                                     Min(row.q_end, btc_window[2]) + 2)
                   ELSE {NoPrices}) :
       \E start_liq \in {StartLiq(prev_end_liq, q_liq, row.q_end)},
          ev_q \in {EventsWithin(events, row.q_start, row.q_end)},
          btc_df \in {BtcDf(row, btc_window, ans)} :
       \E ev_sum \in {SumSkipNaN([k \in DOMAIN ev_q |-> ev_q[k].amount])},
          btc_sum \in {SumSkipNaN([k \in DOMAIN btc_df |-> btc_df[k].cash_flow])},
          btc_units_executed \in
              {SumSkipNaN([k \in DOMAIN btc_df |-> btc_df[k].btc_units])} :
       \E end_liq \in {EndLiq(start_liq, ev_sum, btc_sum, q_liq, row.q_end)} :
       \E path \in {build_daily_path(
                        [q_start |-> row.q_start, q_end |-> row.q_end,
                         start_liq |-> start_liq, end_liq |-> end_liq,
                         events |-> ev_q, btc_out |-> btc_df], rates)} :
          /\ yahoo' = IF overlaps THEN Append(yahoo, [iq |-> row.iq, ans |-> ans])
                      ELSE yahoo
          /\ calls' = IF overlaps THEN [calls EXCEPT !.yahoo = @ + Requests(ans)]
                      ELSE calls
          /\ IF path.err
             THEN /\ pc' = "loop_aborted"
                  /\ UNCHANGED loop_state
             ELSE \E l \in {WithBtcEarnings(QuarterLocals(row, start_liq, ev_q, btc_df,
                                ev_sum, btc_sum, end_liq, path.interest,
                                btc_units_executed))} :
                  /\ pc' = pc
                  /\ qi' = qi + 1
                  /\ cur' = l
                  /\ daily' = path.daily
                  /\ results' = Append(results, ResultRow(l, path.daily))
                  /\ fwd' = Append(fwd, ForwardRow(l, path.daily))
                  /\ cum_btc_units' = l.btc_units_end
                  /\ cum_btc_cost_mm' = Add(cum_btc_cost_mm, l.btc_spent_mm)
                  /\ prev_end_liq' = l.end_liq_carry_mm
                  /\ prev_q_end' = l.q_end
    /\ UNCHANGED <<inputs, rate_range, fred, qdf, rates, btc_closes_by_qend, stats,
                   run, first>>

\* after the loop: the results frame with its error columns, and the error
\* statistics
Report ==
    /\ pc = "loop"
    /\ qi = Len(qdf)
    /\ pc' = "done"
    /\ \E res \in {[k \in DOMAIN results |-> WithErrorColumns(results[k], q_rep)]} :
          /\ results' = res
          /\ stats' = ErrorStats(res)
    /\ UNCHANGED <<inputs, rate_range, fred, qdf, rates, btc_closes_by_qend, qi,
                   prev_end_liq, prev_q_end, cum_btc_units, cum_btc_cost_mm, cur,
                   daily, yahoo, calls, fwd, run, first>>

Next == Setup \/ QuarterStep \/ Report

Spec == Init /\ [][Next]_vars

(***************************************************************************)
(* Two runs of simulate_all that differ in the reported interest only: the *)
(* second starts when the first has ended, with the same arguments, tables *)
(* and answers of the sources, and another table of reported interest      *)
(***************************************************************************)
Rerun ==
    /\ run = 1
    /\ pc \in {"done", "aborted", "loop_aborted"}
    /\ run' = 2
    /\ first' = [pc |-> pc, fwd |-> fwd, results |-> results, yahoo |-> yahoo]
    /\ q_rep' \in OtherReportedTables \ {q_rep}
    /\ pc' = "start"
    /\ rate_range' = <<0, -1>>
    /\ qdf' = <<>>
    /\ rates' = <<>>
    /\ btc_closes_by_qend' = <<>>
    /\ qi' = 0
    /\ prev_end_liq' = NoneNum
    /\ prev_q_end' = 0
    /\ cum_btc_units' = Zero
    /\ cum_btc_cost_mm' = Zero
    /\ cur' = NoCur
    /\ daily' = <<>>
    /\ results' = <<>>
    /\ yahoo' = <<>>
    /\ calls' = NoCalls
    /\ stats' = NoStats
    /\ fwd' = <<>>
    /\ UNCHANGED <<forecast_quarters, quarter_days, q_liq, events, rate_events,
                   btc_window, fred>>

NextTwice == Setup \/ QuarterStep \/ Report \/ Rerun

SpecTwice == Init /\ [][NextTwice]_vars

(***************************************************************************)
(* Calls of build_quarter_frame_with_forecast alone, with any anchor       *)
(* dates, any number of forecast quarters and any quarter length           *)
(***************************************************************************)
InitFrame ==
    /\ pc = "frame_call"
    /\ forecast_quarters \in 0..MaxForecast
    /\ quarter_days \in 0..MaxQuarterDays
    /\ q_liq \in FrameAnchorTables
    /\ q_rep = <<>>
    /\ events = <<>>
    /\ rate_events = <<>>
    /\ btc_window = <<0, -1>>
    /\ rate_range = <<0, -1>>
    /\ fred = NoAnswer
    /\ qdf = <<>>
    /\ rates = <<>>
    /\ btc_closes_by_qend = <<>>
    /\ qi = 0
    /\ prev_end_liq = NoneNum
    /\ prev_q_end = 0
    /\ cum_btc_units = Zero
    /\ cum_btc_cost_mm = Zero
    /\ cur = NoCur
    /\ daily = <<>>
    /\ results = <<>>
    /\ yahoo = <<>>
    /\ calls = NoCalls
    /\ stats = NoStats
    /\ fwd = <<>>
    /\ run = 1
    /\ first = NoFirst

FrameCall ==
    /\ pc = "frame_call"
    /\ \E frame \in {build_quarter_frame_with_forecast(DOMAIN q_liq, forecast_quarters,
                                                        quarter_days)} :
          /\ qdf' = frame.rows
          /\ pc' = IF frame.err THEN "frame_aborted" ELSE "frame_done"
    /\ UNCHANGED <<inputs, rate_range, fred, rates, btc_closes_by_qend, loop_state,
                   yahoo, calls, stats, run, first>>

NextFrame == FrameCall

SpecFrame == InitFrame /\ [][NextFrame]_vars

(***************************************************************************)
(* Calls of fetch_rates and then apply_future_rate_events alone, on the    *)
(* range 0..MaxRateDay, with any answer of the rate source and any list of *)
(* scheduled events                                                        *)
(***************************************************************************)
InitRates ==
    /\ pc = "fetch_call"
    /\ forecast_quarters = 0
    /\ quarter_days = QUARTER_DAYS_DEFAULT
    /\ q_liq = <<>>
    /\ q_rep = <<>>
    /\ events = <<>>
    /\ rate_events \in RateEventLists
    /\ btc_window = <<0, -1>>
    /\ rate_range = <<0, MaxRateDay>>
    /\ fred \in FredAnswers(0, MaxRateDay)
    /\ qdf = <<>>
    /\ rates = <<>>
    /\ btc_closes_by_qend = <<>>
    /\ qi = 0
    /\ prev_end_liq = NoneNum
    /\ prev_q_end = 0
    /\ cum_btc_units = Zero
    /\ cum_btc_cost_mm = Zero
    /\ cur = NoCur
    /\ daily = <<>>
    /\ results = <<>>
    /\ yahoo = <<>>
    /\ calls = NoCalls
    /\ stats = NoStats
    /\ fwd = <<>>
    /\ run = 1
    /\ first = NoFirst

FetchRatesCall ==
    /\ pc = "fetch_call"
    /\ rates' = fetch_rates(rate_range[1], rate_range[2], fred)
    /\ pc' = "events_call"
    /\ UNCHANGED <<inputs, rate_range, fred, qdf, btc_closes_by_qend, loop_state,
                   yahoo, calls, stats, run, first>>

ApplyRateEventsCall ==
    /\ pc = "events_call"
    /\ \E adj \in {apply_future_rate_events(rates, rate_events)} :
          /\ rates' = adj.rates
          /\ pc' = IF adj.err THEN "rates_aborted" ELSE "rates_done"
    /\ UNCHANGED <<inputs, rate_range, fred, qdf, btc_closes_by_qend, loop_state,
                   yahoo, calls, stats, run, first>>

NextRates == FetchRatesCall \/ ApplyRateEventsCall

SpecRates == InitRates /\ [][NextRates]_vars

(***************************************************************************)
(* Calls of build_daily_path alone: a quarter of days 1..n, entered with   *)
(* the inputs simulate_all hands over (the events and purchases within the *)
(* quarter; the end liquidity an anchor or, in a forecast quarter, start + *)
(* events + purchases) and a dense rate table                              *)
(***************************************************************************)
MaxPathDays == 10

\* flat rate tables: 3.65 % (a daily rate of 0.0001) and the default rate
PathRates ==
    {[d \in 1..(MaxPathDays + 1) |-> RateRow(r)] :
        r \in {Rat(DAYCOUNT, 100), Int2Num(DEFAULT_OFFLINE_RATE_PCT)}}

\* no purchases, or fallback purchases of 10 a day on the days 2..3 of the quarter
PathPurchases(q_end) ==
    {<<>>, btc_outflow_series(2, Min(q_end, 3), Int2Num(BTC_UNITS_DEFAULT), NoneNum,
                              Int2Num(10), BTC_FEE_BPS, NoPrices)}

\* QuarterInputs as the quarter loop builds them
PathInputs(q_end, start_liq, ev_q, btc_df, liq) ==
    [q_start |-> 1, q_end |-> q_end, start_liq |-> start_liq,
     end_liq |-> EndLiq(start_liq,
                        SumSkipNaN([k \in DOMAIN ev_q |-> ev_q[k].amount]),
                        SumSkipNaN([k \in DOMAIN btc_df |-> btc_df[k].cash_flow]),
                        liq, q_end),
     events |-> ev_q, btc_out |-> btc_df,
     is_forecast |-> IsForecast(liq, q_end), modeled_interest_mm |-> NaN]

InitPath ==
    /\ pc = "path_call"
    /\ forecast_quarters = 0
    /\ quarter_days = QUARTER_DAYS_DEFAULT
    /\ q_liq = <<>>
    /\ q_rep = <<>>
    /\ events = <<>>
    /\ rate_events = <<>>
    /\ btc_window = <<0, -1>>
    /\ rate_range = <<1, MaxPathDays + 1>>
    /\ fred = NoAnswer
    /\ qdf = <<>>
    /\ rates \in PathRates
    /\ btc_closes_by_qend = <<>>
    /\ qi = 0
    /\ prev_end_liq = NoneNum
    /\ prev_q_end = 0
    /\ cum_btc_units = Zero
    /\ cum_btc_cost_mm = Zero
    /\ \E q_end \in 1..MaxPathDays, start_liq \in {Int2Num(500), Int2Num(1000)},
          evs \in EventLists, is_anchor \in BOOLEAN :
       \E btc_df \in PathPurchases(q_end) :
          cur = PathInputs(q_end, start_liq, EventsWithin(evs, 1, q_end), btc_df,
                           IF is_anchor THEN [d \in {q_end} |-> Int2Num(1100)]
                           ELSE <<>>)
    /\ daily = <<>>
    /\ results = <<>>
    /\ yahoo = <<>>
    /\ calls = NoCalls
    /\ stats = NoStats
    /\ fwd = <<>>
    /\ run = 1
    /\ first = NoFirst

PathCall ==
    /\ pc = "path_call"
    /\ \E path \in {build_daily_path(cur, rates)} :
          /\ daily' = path.daily
          /\ cur' = [cur EXCEPT !.modeled_interest_mm = path.interest]
          /\ pc' = IF path.err THEN "path_aborted" ELSE "path_done"
    /\ UNCHANGED <<inputs, rate_range, fred, qdf, rates, btc_closes_by_qend, qi,
                   prev_end_liq, prev_q_end, cum_btc_units, cum_btc_cost_mm, results,
                   fwd, yahoo, calls, stats, run, first>>

NextPath == PathCall

SpecPath == InitPath /\ [][NextPath]_vars

(***************************************************************************)
(* Properties of the runs of simulate_all (Spec)                           *)
(***************************************************************************)
\* a quarter has been processed and its locals and daily path are in cur, daily
QuarterDone == pc \in {"loop", "done"} /\ qi > 0

\* the flows of the daily path, summed over its days
PathFlows == SumSkipNaN([k \in DOMAIN daily |-> Add(daily[k].events, daily[k].btc)])

\* C1: in every reported quarter (its end date has an anchor) the ending
\* balance of the last day of the daily path equals the quarter's
\* end-liquidity anchor, and the constant drift of each day is
\* (anchor - start - all flows) / days.
C1_ReconciliationExact ==
    (QuarterDone /\ ~cur.is_forecast) =>
        /\ Len(daily) > 0
        /\ daily[Len(daily)].ending_balance_mm = q_liq[cur.q_end]
        /\ daily[1].drift =
               DivInt(Sub(Sub(q_liq[cur.q_end], cur.start_liq), PathFlows), Len(daily))
        /\ \A k \in DOMAIN daily : daily[k].drift = daily[1].drift

\* a reported quarter with events, purchases and a drift that is not zero
C1_Witness ==
    /\ QuarterDone /\ ~cur.is_forecast
    /\ ~IsZero(cur.ev_sum) /\ ~IsZero(cur.btc_sum)
    /\ ~IsZero(daily[1].drift)
    /\ cur.start_liq # q_liq[cur.q_end]

C3_CarryContinuity ==
    [][(pc = "loop" /\ qi' = qi + 1) =>
          cur'.start_liq =
              IF qi = 0
              THEN (IF cur'.q_end \in DOMAIN q_liq THEN q_liq[cur'.q_end] ELSE Zero)
              ELSE cur.end_liq_carry_mm]_vars

\* a reported quarter after the first, whose anchor differs from the carry it
\* starts from
C3_Witness ==
    /\ QuarterDone /\ qi >= 2
    /\ cur.q_end \in DOMAIN q_liq
    /\ cur.start_liq # q_liq[cur.q_end]

\* C4: the carry handed to the next quarter is the end liquidity unchanged in
\* a reported quarter and the end liquidity plus the quarter's modeled
\* interest in a forecast quarter.
C4_CarryFormula ==
    QuarterDone =>
        /\ cur.end_liq_carry_mm =
               IF cur.q_end \in DOMAIN q_liq THEN cur.end_liq
               ELSE Add(cur.end_liq, cur.modeled_interest_mm)
        /\ prev_end_liq = cur.end_liq_carry_mm

\* a reported quarter with modeled interest, which stays out of its carry
C4_Witness ==
    /\ QuarterDone /\ cur.q_end \in DOMAIN q_liq
    /\ IsPos(cur.modeled_interest_mm)
    /\ prev_end_liq = cur.end_liq

\* C7: whatever the rate source answers, the rate table has a defined rate on
\* every day of the requested range, and every daily row of every quarter's
\* path has a defined daily rate.
C7_RatesComplete ==
    (pc \in {"loop", "done"}) =>
        /\ \A fetched \in {fetch_rates(rate_range[1], rate_range[2], fred)} :
              \A d \in rate_range[1]..rate_range[2] :
                  /\ d \in DOMAIN fetched
                  /\ ~IsNaN(fetched[d].rate_pct) /\ ~IsNaN(fetched[d].daily_rate)
        /\ \A d \in rate_range[1]..rate_range[2] :
              /\ d \in DOMAIN rates
              /\ ~IsNaN(rates[d].rate_pct) /\ ~IsNaN(rates[d].daily_rate)
        /\ \A k \in DOMAIN daily :
              ~IsNaN(daily[k].daily_rate) /\ ~IsNaN(daily[k].interest_mm)

\* a quarter's path built from the rates of a failed download
C7_Witness == QuarterDone /\ ~fred.ok /\ Len(daily) > 0 /\ rate_events = <<>>

(***************************************************************************)
(* Properties of the purchases, the holdings and the result rows (Spec)    *)
(***************************************************************************)
\* the purchase window lies inside the quarters of the frame
WindowInFrame ==
    /\ qdf # <<>>
    /\ qdf[1].q_start <= btc_window[1]
    /\ btc_window[2] <= qdf[Len(qdf)].q_end

\* every download of daily prices of the run failed
NoDailyPrices == \A k \in DOMAIN yahoo : yahoo[k].iq > 0 => ~yahoo[k].ans.ok

\* the download of daily prices of the last quarter processed failed
LastDownloadFailed ==
    /\ QuarterDone
    /\ Len(cur.btc_df) > 0
    /\ \E k \in DOMAIN yahoo : yahoo[k].iq = cur.iq /\ ~yahoo[k].ans.ok

InWindow(day) == btc_window[1] <= day /\ day <= btc_window[2]

\* C11: when no daily prices are available and the window lies inside the
\* frame, every day of the window carries the same outflow in the daily paths
\* (no other day carries one) and the outflows of the whole window, summed
\* over the quarters it overlaps, total exactly BTC_USD_TOTAL_MM.
C11_FallbackTotal ==
    (pc = "done" /\ WindowInFrame /\ NoDailyPrices) =>
        /\ \A i \in DOMAIN fwd : \A k \in DOMAIN fwd[i].daily :
              \A j \in DOMAIN fwd : \A m \in DOMAIN fwd[j].daily :
                 (InWindow(fwd[i].daily[k].date) /\ InWindow(fwd[j].daily[m].date))
                     => fwd[i].daily[k].btc = fwd[j].daily[m].btc
        /\ \A i \in DOMAIN fwd : \A k \in DOMAIN fwd[i].daily :
              ~InWindow(fwd[i].daily[k].date) => fwd[i].daily[k].btc = Zero
        /\ cum_btc_cost_mm = Int2Num(BTC_USD_TOTAL_MM)

\* C12: in a quarter that overlaps the window and whose download of prices
\* failed, the days of the overlap carry the fallback outflow in the daily
\* path, and the units purchased, the average price and the units held of
\* the quarter's result row are undefined.
C12_FallbackUndefined ==
    LastDownloadFailed =>
        /\ \A k \in DOMAIN daily :
              InWindow(daily[k].date) =>
                 /\ IsNeg(daily[k].btc)
                 /\ \E b \in DOMAIN cur.btc_df :
                       /\ cur.btc_df[b].date = daily[k].date
                       /\ cur.btc_df[b].cash_flow = daily[k].btc
        /\ IsNaN(results[qi].btc_units_executed)
        /\ IsNaN(results[qi].btc_avg_price_usd)
        /\ IsNaN(results[qi].btc_units_holdings)

\* C13: each iteration of the quarter loop begins with the units the
\* iteration before it ended with (none before the first) and ends with
\* those plus the units purchased in the quarter; its ending fair value is the
\* ending units times the close of its quarter end / 1e6 when that close is
\* known; its beginning fair value is the ending fair value of the iteration
\* before it; and its asset earnings are ending fair value - (beginning fair
\* value + cash spent on the quarter's purchases).
C13_HoldingsRollForward ==
    [][(pc = "loop" /\ qi' = qi + 1) =>
          /\ cur'.btc_units_beg = (IF qi = 0 THEN Zero ELSE cur.btc_units_end)
          /\ cur'.btc_units_end = Add(cur'.btc_units_beg, cur'.btc_units_executed)
          /\ cum_btc_units' = cur'.btc_units_end
          /\ cur'.btc_px_qend_usd = btc_closes_by_qend[cur'.q_end]
          /\ ~IsNaN(cur'.btc_px_qend_usd) =>
                 cur'.fv_end_mm =
                     MulRat(Mul(cur'.btc_units_end, cur'.btc_px_qend_usd), 1, 1000000)
          /\ cur'.fv_beg_mm = (IF qi = 0 THEN Zero ELSE cur.fv_end_mm)
          /\ cur'.btc_spent_mm =
                 Neg(SumSkipNaN([k \in DOMAIN cur'.btc_df |-> cur'.btc_df[k].cash_flow]))
          /\ cur'.btc_earnings_mm =
                 Sub(cur'.fv_end_mm, Add(cur'.fv_beg_mm, cur'.btc_spent_mm))]_vars

\* a quarter that begins with units bought before it, buys more and marks
\* both to a known close
C13_Witness ==
    /\ QuarterDone /\ qi >= 2
    /\ IsPos(cur.btc_units_beg) /\ IsPos(cur.btc_units_executed)
    /\ IsPos(cur.fv_beg_mm) /\ IsPos(cur.fv_end_mm)
    /\ ~IsZero(cur.btc_earnings_mm)

\* the rows of a results frame that have a reported figure, in order
RECURSIVE C16_WithFigure(_, _)
C16_WithFigure(res, k) ==
    IF k > Len(res) THEN <<>>
    ELSE IF res[k].q_end \in DOMAIN q_rep
         THEN <<res[k]>> \o C16_WithFigure(res, k + 1)
         ELSE C16_WithFigure(res, k + 1)

\* C16: the result row of every quarter without a reported figure has the
\* undefined marker (None, NaN once the frame is built), never a number, for
\* reported interest, absolute error and percentage error; its ape and smape
\* are undefined, and the error statistics are those of the rows that have a
\* figure.
C16_MissingReportedUndefined ==
    /\ \A k \in DOMAIN results :
          results[k].q_end \notin DOMAIN q_rep =>
             /\ results[k].reported_interest_mm = (IF pc = "done" THEN NaN ELSE NoneNum)
             /\ IsNaN(results[k].abs_error_mm)
             /\ IsNaN(results[k].pct_error)
             /\ pc = "done" => IsNaN(results[k].ape) /\ IsNaN(results[k].smape)
    /\ pc = "done" => stats = ErrorStats(C16_WithFigure(results, 1))

\* a finished run with a reported quarter and a forecast quarter that both
\* lack a figure, beside a quarter that has one and enters the statistics
C16_Witness ==
    /\ pc = "done"
    /\ \E k \in DOMAIN results :
          results[k].is_forecast /\ results[k].q_end \notin DOMAIN q_rep
    /\ \E k \in DOMAIN results :
          ~results[k].is_forecast /\ results[k].q_end \notin DOMAIN q_rep
    /\ \E k \in DOMAIN results :
          results[k].q_end \in DOMAIN q_rep /\ ~IsNaN(results[k].abs_error_mm)
    /\ ~IsNaN(stats.smape_all)

\* C17: the daily path of every quarter has one row per day from the
\* quarter's start to its end, (q_end - q_start) + 1 rows, which is the day
\* count of the quarter in the frame and in its result row.
C17_DayCount ==
    \A i \in DOMAIN fwd :
        /\ Len(fwd[i].daily) = (qdf[i].q_end - qdf[i].q_start) + 1
        /\ Len(fwd[i].daily) = qdf[i].days
        /\ Len(fwd[i].daily) = results[i].days
        /\ \A k \in DOMAIN fwd[i].daily : fwd[i].daily[k].date = qdf[i].q_start + k - 1

\* a run through a first quarter, a short reported quarter and a forecast
\* quarter
C17_Witness ==
    /\ Len(fwd) >= 3
    /\ Len(fwd[1].daily) = QUARTER_DAYS_DEFAULT
    /\ Len(fwd[2].daily) < QUARTER_DAYS_DEFAULT
    /\ results[3].is_forecast /\ results[3].days = QUARTER_DAYS_DEFAULT

\* the quarters the loop has entered: those processed, and the one whose path
\* failed
C15_Entered == IF pc = "loop_aborted" THEN 1..(qi + 1) ELSE 1..qi

\* the quarters among them that overlap the purchase window
C15_Overlapping ==
    {i \in C15_Entered :
        Max(qdf[i].q_start, btc_window[1]) <= Min(qdf[i].q_end, btc_window[2])}

\* C15: a failed request to the rate source or to the price source stays
\* inside its adapter.  Each adapter call makes one request; fetch_rates
\* answers a failure with the default rate on every day, prefetch_btc_closes
\* with an undefined close for every quarter end, btc_outflow_series with the
\* fixed cash spread evenly and undefined units and prices; the run stops
\* early only on a configuration error, whatever the sources answered;
\* inside the loop there is always a next quarter to process or the results
\* to build, and a finished run has one result row per quarter of the frame.
C15_FailuresContained ==
    /\ (pc \in {"loop", "done", "loop_aborted"}) =>
          /\ calls.fred = 1
          /\ calls.yahoo = 1 + Cardinality(C15_Overlapping)
          /\ Len(yahoo) = calls.yahoo
          /\ ~fred.ok =>
                 /\ DOMAIN rates = rate_range[1]..rate_range[2]
                 /\ \A d \in DOMAIN rates :
                       (\A i \in DOMAIN rate_events : rate_events[i].date > d)
                          => rates[d].rate_pct = Int2Num(DEFAULT_OFFLINE_RATE_PCT)
          /\ DOMAIN btc_closes_by_qend = {qdf[i].q_end : i \in DOMAIN qdf}
          /\ ~yahoo[1].ans.ok =>
                 \A e \in DOMAIN btc_closes_by_qend : IsNaN(btc_closes_by_qend[e])
    /\ LastDownloadFailed =>
          /\ Len(cur.btc_df) = Min(cur.q_end, btc_window[2])
                                   - Max(cur.q_start, btc_window[1]) + 1
          /\ \A k \in DOMAIN cur.btc_df :
                 /\ cur.btc_df[k].cash_flow =
                        Neg(Mul(DivInt(Int2Num(BTC_USD_TOTAL_MM), WindowLen(btc_window)),
                                FeeMult(BTC_FEE_BPS)))
                 /\ IsNaN(cur.btc_df[k].btc_units)
                 /\ IsNaN(cur.btc_df[k].btc_price_usd)
    /\ pc = "aborted" =>
          \E i \in DOMAIN rate_events : rate_events[i].has_delta /\ rate_events[i].has_abs
    /\ pc = "loop_aborted" =>
          HasDuplicateDates(EventsWithin(events, qdf[qi + 1].q_start, qdf[qi + 1].q_end))
    /\ pc = "loop" => Len(results) = qi /\ qi <= Len(qdf)
    /\ pc = "done" =>
          /\ Len(results) = Len(qdf)
          /\ \A i \in DOMAIN qdf : results[i].q_end = qdf[i].q_end

\* a finished run in which every request failed: the rates, the quarter-end
\* closes and the daily prices of two quarters
C15_Witness ==
    /\ pc = "done"
    /\ ~fred.ok
    /\ Len(yahoo) = 3
    /\ \A k \in DOMAIN yahoo : ~yahoo[k].ans.ok
    /\ Len(results) = Len(qdf)

\* the amounts of the events dated on one day, summed
C19_OnDay(day) ==
    SumSkipNaN([k \in DOMAIN events |->
                   IF events[k].date = day THEN events[k].amount ELSE Zero])

\* C19: every quarter of the frame gets its daily path, whose event flow of
\* each day is the sum of the amounts of the configured events dated that
\* day, two events of one date included, so that the event flows of the path
\* sum to the total of the quarter's events.
C19_EventsOnOwnDate ==
    /\ pc # "loop_aborted"
    /\ \A i \in DOMAIN fwd : \A k \in DOMAIN fwd[i].daily :
          fwd[i].daily[k].events = C19_OnDay(fwd[i].daily[k].date)
    /\ QuarterDone =>
          SumSkipNaN([k \in DOMAIN daily |-> daily[k].events]) = cur.ev_sum

(***************************************************************************)
(* Properties of two runs that differ in the reported interest (SpecTwice) *)
(***************************************************************************)
\* the columns of a result row that show the reported interest or an error
C14_Diagnostics ==
    {"reported_interest_mm", "abs_error_mm", "pct_error", "ape", "smape"}

\* C14: a run repeated with the same arguments, tables and answers of the
\* sources and another table of reported interest gives every quarter the
\* same start liquidity, end liquidity, daily path, modeled interest and
\* carry, and ends the same way; its result rows differ from those of the
\* first run in the reported interest and the error columns only.
C14_ReportedNotForward ==
    (run = 2) =>
        /\ Len(fwd) <= Len(first.fwd)
        /\ \A i \in DOMAIN fwd : fwd[i] = first.fwd[i]
        /\ (pc \in {"done", "aborted", "loop_aborted"}) =>
              /\ pc = first.pc
              /\ fwd = first.fwd
              /\ Len(results) = Len(first.results)
              /\ \A k \in DOMAIN results :
                    /\ DOMAIN results[k] = DOMAIN first.results[k]
                    /\ \A f \in DOMAIN results[k] \ C14_Diagnostics :
                          results[k][f] = first.results[k][f]

\* a repetition through three quarters whose first row shows another error
\* than in the first run
C14_Witness ==
    /\ run = 2 /\ pc = "done"
    /\ Len(fwd) >= 3
    /\ ~IsNaN(first.results[1].abs_error_mm)
    /\ results[1].abs_error_mm # first.results[1].abs_error_mm
    /\ results[1].smape # first.results[1].smape

(***************************************************************************)
(* Properties of build_quarter_frame_with_forecast (SpecFrame)             *)
(***************************************************************************)
\* C5: for any number of forecast quarters and any quarter length, the
\* quarters of the frame are strictly increasing, without overlaps or gaps:
\* every quarter after the first starts one day after the end of the quarter
\* before it and ends after it, and no quarter starts after its end.
C5_FrameContiguous ==
    (pc = "frame_done") =>
        \A i \in DOMAIN qdf :
            /\ qdf[i].q_start <= qdf[i].q_end
            /\ i > 1 => /\ qdf[i].q_start = qdf[i - 1].q_end + 1
                        /\ qdf[i].q_end > qdf[i - 1].q_end

\* C6: the frame has one quarter per anchor date, in ascending order, then
\* exactly forecast_quarters forecast quarters, each of quarter_days days and
\* ending quarter_days after the quarter before it; the first quarter has
\* quarter_days days too.
C6_FrameShape ==
    (pc = "frame_done") =>
        \A n \in {Cardinality(DOMAIN q_liq)} :
            /\ Len(qdf) = n + forecast_quarters
            /\ {qdf[i].q_end : i \in 1..n} = DOMAIN q_liq
            /\ \A i \in 1..(n - 1) : qdf[i].q_end < qdf[i + 1].q_end
            /\ \A i \in (n + 1)..Len(qdf) :
                  /\ qdf[i].q_end = qdf[i - 1].q_end + quarter_days
                  /\ qdf[i].days = quarter_days
                  /\ qdf[i].q_end - qdf[i].q_start + 1 = quarter_days
            /\ qdf[1].days = quarter_days
            /\ qdf[1].q_end - qdf[1].q_start + 1 = quarter_days
            /\ \A i \in DOMAIN qdf : qdf[i].iq = i

\* a frame of several anchors and several forecast quarters of several days
C6_Witness ==
    /\ pc = "frame_done"
    /\ Cardinality(DOMAIN q_liq) >= 2
    /\ forecast_quarters >= 2
    /\ quarter_days >= 2
    /\ Len(qdf) >= 4

(***************************************************************************)
(* Properties of fetch_rates and apply_future_rate_events (SpecRates)      *)
(***************************************************************************)
\* the days the rate source has an observation for
Observed == IF fred.ok THEN DOMAIN fred.obs ELSE {}

\* C8: after fetch_rates a day with an observation has it, a day without one
\* has the most recent earlier observation if there is one, else the earliest
\* later observation, and every day has the default rate when the source
\* fails or has no observation at all; daily_rate is rate_pct / 100 / 365.
C8_FillOrder ==
    (pc = "events_call") =>
        \A d \in rate_range[1]..rate_range[2] :
            /\ d \in DOMAIN rates
            /\ rates[d].rate_pct =
                  IF \E o \in Observed : o <= d
                  THEN fred.obs[CHOOSE o \in Observed :
                                    o <= d /\ \A p \in Observed : p <= d => p <= o]
                  ELSE IF \E o \in Observed : o > d
                  THEN fred.obs[CHOOSE o \in Observed :
                                    o > d /\ \A p \in Observed : p > d => o <= p]
                  ELSE Int2Num(DEFAULT_OFFLINE_RATE_PCT)
            /\ rates[d].daily_rate = MulRat(rates[d].rate_pct, 1, 100 * DAYCOUNT)

\* observations that leave gaps before the first and after the last of them
C8_Witness ==
    /\ pc = "events_call"
    /\ Observed # {}
    /\ rate_range[1] \notin Observed
    /\ rate_range[2] \notin Observed
    /\ rates[rate_range[1]].rate_pct # rates[rate_range[2]].rate_pct

\* C9: whenever the list of scheduled events has an event with both to_pct
\* and delta_bps, whatever its date, apply_future_rate_events raises and the
\* run aborts.
C9_BothFieldsAbort ==
    (/\ pc \in {"rates_done", "rates_aborted"}
     /\ \E i \in DOMAIN rate_events :
           rate_events[i].has_delta /\ rate_events[i].has_abs)
        => pc = "rates_aborted"

\* the rate of one day after one event
C10_AfterEvent(rate_pct, ev) ==
    IF ev.has_abs THEN ev.to_pct
    ELSE IF ev.has_delta THEN Add(rate_pct, Rat(ev.delta_bps, 100))
    ELSE rate_pct

\* the events dated on or before day d that are still to apply
C10_Due(evs, d) == {i \in DOMAIN evs : evs[i].date <= d}

\* the rate of day d after every event of evs dated on or before d, taken in
\* date order (events of one date in listed order)
RECURSIVE C10_Expected(_, _, _)
C10_Expected(rate_pct, evs, d) ==
    IF C10_Due(evs, d) = {} THEN rate_pct
    ELSE LET i == CHOOSE i \in C10_Due(evs, d) :
                      \A j \in C10_Due(evs, d) :
                          \/ evs[i].date < evs[j].date
                          \/ evs[i].date = evs[j].date /\ i <= j
         IN C10_Expected(C10_AfterEvent(rate_pct, evs[i]),
                         [k \in 1..(Len(evs) - 1) |->
                             IF k < i THEN evs[k] ELSE evs[k + 1]], d)

\* C10: when apply_future_rate_events returns, the rate of every day d is the
\* fetched rate of d transformed by every event dated on or before d, in date
\* order whatever the listed order (an absolute event sets the level, a delta
\* event adds delta_bps / 100), so a day before the earliest event keeps its
\* rate; daily_rate is the adjusted rate / 100 / 365.
C10_EventsCumulative ==
    (pc = "rates_done") =>
        \A fetched \in {fetch_rates(rate_range[1], rate_range[2], fred)} :
            \A d \in rate_range[1]..rate_range[2] :
                /\ rates[d].rate_pct = C10_Expected(fetched[d].rate_pct, rate_events, d)
                /\ (\A i \in DOMAIN rate_events : rate_events[i].date > d)
                      => rates[d].rate_pct = fetched[d].rate_pct
                /\ rates[d].daily_rate = MulRat(rates[d].rate_pct, 1, 100 * DAYCOUNT)

\* two events listed latest first, the later an absolute level, both applied
C10_Witness ==
    /\ pc = "rates_done"
    /\ Len(rate_events) = 2
    /\ rate_events[1].date > rate_events[2].date
    /\ rate_events[1].date <= rate_range[2]
    /\ rate_events[1].has_abs /\ rate_events[2].has_delta
    /\ rates[rate_range[2]].rate_pct = rate_events[1].to_pct

(***************************************************************************)
(* Properties of build_daily_path (SpecPath)                               *)
(***************************************************************************)
\* the event amounts and the purchase cash flows dated within days 1..day
C18_FlowsUpTo(day) ==
    Add(SumSkipNaN([i \in DOMAIN cur.events |->
                       IF cur.events[i].date <= day THEN cur.events[i].amount ELSE Zero]),
        SumSkipNaN([i \in DOMAIN cur.btc_out |->
                       IF cur.btc_out[i].date <= day THEN cur.btc_out[i].cash_flow
                       ELSE Zero]))

\* the constant drift of a day: (end - start - all flows) / days
C18_Drift ==
    DivInt(Sub(Sub(cur.end_liq, cur.start_liq), C18_FlowsUpTo(cur.q_end)), cur.q_end)

\* the quarter of the first example: 1000 to an anchor of 1100 in 10 days, no
\* flows, a daily rate of 0.0001
C18_TenDaysToAnchor ==
    /\ cur.q_end = 10 /\ ~cur.is_forecast
    /\ cur.start_liq = Int2Num(1000) /\ cur.end_liq = Int2Num(1100)
    /\ cur.events = <<>> /\ cur.btc_out = <<>>
    /\ \A d \in 1..10 : rates[d].daily_rate = Rat(1, 10000)

\* the quarter of the second example: a forecast quarter of 10 days entered
\* with 500, one event of +50 on day 5, no purchases
C18_ForecastWithEvent ==
    /\ cur.q_end = 10 /\ cur.is_forecast
    /\ cur.start_liq = Int2Num(500)
    /\ cur.events = <<[date |-> 5, amount |-> Int2Num(50)]>>
    /\ cur.btc_out = <<>>

\* C18: the daily path has the days of the quarter in chronological order;
\* the ending balance of day k is the start liquidity plus the event flow, the
\* purchase flow and the drift of the days 1..k, and the modeled interest is
\* the sum over the days of ending balance times the daily rate of the day.
\* From 1000 to an anchor of 1100 in 10 days without flows the drift is 10 a
\* day, the balances are 1010, 1020, ..., 1100 and the interest at a daily
\* rate of 0.0001 is 1.055; in a forecast quarter of 10 days entered with 500
\* and one event of +50 on day 5 the drift is 0, the end liquidity 550, the
\* balance of day 5 is 50 above that of day 4 and no other day moves it.
C18_CumulativeWalk ==
    (pc = "path_done") =>
        /\ Len(daily) = cur.q_end
        /\ \A k \in DOMAIN daily :
              /\ daily[k].date = k
              /\ daily[k].drift = C18_Drift
              /\ daily[k].ending_balance_mm =
                    Add(Add(cur.start_liq, C18_FlowsUpTo(k)), MulRat(C18_Drift, k, 1))
        /\ cur.modeled_interest_mm =
              SumSkipNaN([k \in DOMAIN daily |->
                            Mul(daily[k].ending_balance_mm, rates[k].daily_rate)])
        /\ C18_TenDaysToAnchor =>
              /\ \A k \in 1..10 :
                    /\ daily[k].drift = Int2Num(10)
                    /\ daily[k].ending_balance_mm = Int2Num(1000 + 10 * k)
              /\ cur.modeled_interest_mm = Rat(1055, 1000)
        /\ C18_ForecastWithEvent =>
              /\ cur.end_liq = Int2Num(550)
              /\ \A k \in 1..10 :
                    /\ daily[k].drift = Zero
                    /\ daily[k].ending_balance_mm =
                          Add(IF k = 1 THEN cur.start_liq
                              ELSE daily[k - 1].ending_balance_mm,
                              IF k = 5 THEN Int2Num(50) ELSE Zero)

\* a path of ten days to an anchor, with an event on day 5 and purchases on
\* the days 2 and 3, so that flows and drift both move the balance
C18_Witness ==
    /\ pc = "path_done"
    /\ cur.q_end = 10 /\ ~cur.is_forecast
    /\ Len(cur.events) = 1 /\ Len(cur.btc_out) = 2
    /\ ~IsZero(daily[1].drift)
    /\ daily[5].ending_balance_mm # Add(daily[4].ending_balance_mm, daily[5].drift)
    /\ daily[10].ending_balance_mm = cur.end_liq

====
